---- MODULE Spec2Model ----
(***************************************************************************)
(* A model of src/src/thermometer.ts: the Thermometer class, its registry  *)
(* of (listener -> qualifier) entries and the dispatch loop of start /     *)
(* #onTempRead.                                                            *)
(*                                                                         *)
(* Numbers are fixed-point, in tenths of a degree (101 is 1010, 213.8 is   *)
(* 2138, 0.5 is 5).  The readings of the model are multiples of 0.5, for   *)
(* which value * 1.8 + 32 is exact in tenths.                              *)
(* A nullable value is a sequence: <<>> is null, <<v>> is the value v.     *)
(***************************************************************************)
EXTENDS Integers, Sequences, FiniteSets, TLC

\* ------------------------------------------------------------- bounds ----
\* The longest dataset handed to start.
MaxLen == 2
\* The most calls of addEventListener / removeEventListener that listeners
\* make from inside one start call.
MaxMods == 1

\* ------------------------------------------------------ input domains ----
Units == {"Celsius", "Fahrenheit"}

\* Raw readings: -6, 0, 0.5 and 101 degrees Celsius.
Readings == {-60, 0, 5, 1010}

\* Listener identities (function references).
Listeners == {"listenerA", "listenerB"}

\* The qualifiers of the model: () => true, current <= 0, the delta
\* qualifier of the tests, and a qualifier that throws.
Qualifiers == {"always", "freezing", "delta", "throws"}

Null == <<>>
Some(v) == <<v>>

\* ---------------------------------------------------------- variables ----
VARIABLES
  defaultUnit,    \* #defaultUnit
  previousTemp,   \* #previousTemp: null or the last raw reading stored
  listeners,      \* #listeners: the Map, as the sequence of its entries in iteration order
  pc,             \* "idle" | "loop" (in start's for) | "dispatch" (in #onTempRead's for)
  dataset,        \* start's argument, as far as its for loop has iterated it: the
                  \* elements to come are the caller's choice, made as the loop asks
  temp,           \* #onTempRead's argument
  it,             \* the Map iterator of #onTempRead: entries of listeners already passed
  event,          \* the event built by the last loop iteration of #onTempRead, or null
  lastCall,       \* the latest call the application made, with its arguments and
                  \* what it gave back; null while start runs
  cycleEvals,     \* listeners whose qualifier was evaluated for the reading in progress
  cycleCalls,     \* listeners invoked for the reading in progress, in order
  calls,          \* per listener, its invocations since the latest call of start
  evals,          \* qualifier evaluations since the latest call of start
  mods,           \* registry calls made by listeners since the latest call of start
  exc,            \* a qualifier or listener threw in the latest start call
  warm,           \* some reading has been processed to the end since construction
  fresh,          \* no start call has ended since construction
  prevAtStart,    \* #previousTemp as the start call in progress found it
  regAtStart      \* #listeners as the start call in progress found it

vars == <<defaultUnit, previousTemp, listeners, pc, dataset, temp, it, event,
          lastCall, cycleEvals, cycleCalls, calls, evals, mods, exc, warm, fresh, prevAtStart,
          regAtStart>>

\* ------------------------------------------------------- the registry ----
Keys(ls) == {ls[i].listener : i \in 1..Len(ls)}

Has(ls, l) == l \in Keys(ls)

IndexOf(ls, l) == CHOOSE i \in 1..Len(ls) : ls[i].listener = l

QualifierOf(ls, l) == ls[IndexOf(ls, l)].qualifier

\* A set that deletes the key and appends it again.
MapSetMovesToEnd(ls, l, q) ==
  Append(SelectSeq(ls, LAMBDA e : e.listener # l), [listener |-> l, qualifier |-> q])

\* Map.prototype.set: an existing key keeps its place and takes the new value,
\* a new key goes to the end.
MapSet(ls, l, q) ==
  IF Has(ls, l)
  THEN [ls EXCEPT ![IndexOf(ls, l)] = [listener |-> l, qualifier |-> q]]
  ELSE Append(ls, [listener |-> l, qualifier |-> q])

\* Map.prototype.delete: the entry goes, the others keep their order.
MapDelete(ls, l) == SelectSeq(ls, LAMBDA e : e.listener # l)

\* An iterator that steps back at every deletion, wherever the entry was.
IterAfterDeleteStepsBack(ls, l, i) ==
  IF Has(ls, l) THEN i - 1 ELSE i

\* A live Map iterator that has passed i entries, after the deletion of key l:
\* an entry that was already passed no longer counts.
IterAfterDelete(ls, l, i) ==
  IF Has(ls, l) /\ IndexOf(ls, l) <= i THEN i - 1 ELSE i

\* --------------------------------------------------------- conversion ----
toFahrenheit(value) == (value * 18) \div 10 + 320

\* convertUnit going by the instance's default unit instead of its argument.
convertUnitOfDefault(unit, value) ==
  IF defaultUnit = "Celsius" THEN value ELSE toFahrenheit(value)

convertUnit(unit, value) ==
  IF unit = "Celsius" THEN value ELSE toFahrenheit(value)

\* --------------------------------------------------------- qualifiers ----
Abs(x) == IF x < 0 THEN -x ELSE x

\* The result of qualifier(event): "true", "false", or "throw".
EvalQualifier(q, ev) ==
  CASE q = "always" -> "true"
    [] q = "freezing" -> IF ev.current <= 0 THEN "true" ELSE "false"
    [] q = "delta" ->
         IF ev.previous # Null /\ Abs(ev.previous[1] - ev.current) > 5
         THEN "true" ELSE "false"
    [] q = "throws" -> "throw"

\* What a listener does when invoked, besides being counted: nothing, throw,
\* or call removeEventListener / addEventListener of the thermometer.
Effects ==
  {[kind |-> k, listener |-> "listenerA", qualifier |-> "always"] : k \in {"none", "throw"}}
  \cup {[kind |-> "remove", listener |-> l, qualifier |-> "always"] : l \in Listeners}
  \cup {[kind |-> "add", listener |-> l, qualifier |-> q] : l \in Listeners, q \in Qualifiers}

\* --------------------------------------------------------------- Init ----
Init ==
  /\ defaultUnit \in Units
  /\ previousTemp = Null
  /\ listeners = <<>>
  /\ pc = "idle"
  /\ dataset = <<>>
  /\ temp = 0
  /\ it = 0
  /\ event = Null
  /\ lastCall = Null
  /\ cycleEvals = <<>>
  /\ cycleCalls = <<>>
  /\ calls = [l \in Listeners |-> 0]
  /\ evals = 0
  /\ mods = 0
  /\ exc = FALSE
  /\ warm = FALSE
  /\ fresh = TRUE
  /\ prevAtStart = Null
  /\ regAtStart = <<>>

\* ------------------------------------------------------------ actions ----
runVars == <<pc, dataset, temp, it, event, cycleEvals, cycleCalls, calls,
             evals, mods, exc, warm, fresh, prevAtStart, regAtStart>>

\* addEventListener on a list of entries instead of a Map: it pushes.
AddEventListenerPushes(q, l) ==
  /\ pc = "idle"
  /\ listeners' = Append(listeners, [listener |-> l, qualifier |-> q])
  /\ lastCall' = Some([op |-> "addEventListener", qualifier |-> q, listener |-> l])
  /\ UNCHANGED <<defaultUnit, previousTemp>>
  /\ UNCHANGED runVars

\* addEventListener(qualifier, listener), called by the application.
AddEventListener(q, l) ==
  /\ pc = "idle"
  /\ listeners' = MapSet(listeners, l, q)
  /\ lastCall' = Some([op |-> "addEventListener", qualifier |-> q, listener |-> l])
  /\ UNCHANGED <<defaultUnit, previousTemp>>
  /\ UNCHANGED runVars

\* removeEventListener on a list of entries, by splice(indexOf(listener), 1):
\* for a listener that is not there, indexOf is -1 and the last entry goes.
RemoveEventListenerSplices(l) ==
  /\ pc = "idle"
  /\ listeners' = IF Has(listeners, l) THEN MapDelete(listeners, l)
                  ELSE SubSeq(listeners, 1, Len(listeners) - 1)
  /\ lastCall' = Some([op |-> "removeEventListener", listener |-> l,
                      present |-> Has(listeners, l)])
  /\ UNCHANGED <<defaultUnit, previousTemp>>
  /\ UNCHANGED runVars

\* removeEventListener that forgets the delete.
RemoveEventListenerKeeps(l) ==
  /\ pc = "idle"
  /\ listeners' = listeners
  /\ lastCall' = Some([op |-> "removeEventListener", listener |-> l,
                      present |-> Has(listeners, l)])
  /\ UNCHANGED <<defaultUnit, previousTemp>>
  /\ UNCHANGED runVars

\* removeEventListener(listener), called by the application.
RemoveEventListener(l) ==
  /\ pc = "idle"
  /\ listeners' = MapDelete(listeners, l)
  /\ lastCall' = Some([op |-> "removeEventListener", listener |-> l,
                      present |-> Has(listeners, l)])
  /\ UNCHANGED <<defaultUnit, previousTemp>>
  /\ UNCHANGED runVars

\* convertUnit keeping the value it was given as the stored reading.
ConvertUnitStores(unit, value) ==
  /\ pc = "idle"
  /\ lastCall' = Some([op |-> "convertUnit", unit |-> unit, value |-> value,
                  result |-> convertUnit(unit, value)])
  /\ previousTemp' = Some(value)
  /\ UNCHANGED <<defaultUnit, listeners>>
  /\ UNCHANGED runVars

\* convertUnit(unit, value), called by the application.
ConvertUnit(unit, value) ==
  /\ pc = "idle"
  /\ lastCall' = Some([op |-> "convertUnit", unit |-> unit, value |-> value,
                  result |-> convertUnit(unit, value)])
  /\ UNCHANGED <<defaultUnit, previousTemp, listeners>>
  /\ UNCHANGED runVars

\* start forgetting the stored reading of the runs before.
StartResets ==
  /\ pc = "idle"
  /\ pc' = "loop"
  /\ dataset' = <<>>
  /\ it' = 0
  /\ event' = Null
  /\ lastCall' = Null
  /\ cycleEvals' = <<>>
  /\ cycleCalls' = <<>>
  /\ calls' = [l \in Listeners |-> 0]
  /\ evals' = 0
  /\ mods' = 0
  /\ exc' = FALSE
  /\ previousTemp' = Null
  /\ prevAtStart' = Null
  /\ regAtStart' = listeners
  /\ UNCHANGED <<defaultUnit, listeners, temp, warm, fresh>>

\* start(dataset) is called: the for loop over dataset begins.
Start ==
  /\ pc = "idle"
  /\ pc' = "loop"
  /\ dataset' = <<>>
  /\ it' = 0
  /\ event' = Null
  /\ lastCall' = Null
  /\ cycleEvals' = <<>>
  /\ cycleCalls' = <<>>
  /\ calls' = [l \in Listeners |-> 0]
  /\ evals' = 0
  /\ mods' = 0
  /\ exc' = FALSE
  /\ prevAtStart' = previousTemp
  /\ regAtStart' = listeners
  /\ UNCHANGED <<defaultUnit, previousTemp, listeners, temp, warm, fresh>>

\* A loop that does not dispatch a reading equal to the stored one.
OnTempReadSkipsRepeat(data) ==
  /\ pc = "loop"
  /\ Len(dataset) < MaxLen
  /\ dataset' = Append(dataset, data)
  /\ temp' = data
  /\ it' = 0
  /\ pc' = IF previousTemp = Some(data) THEN "loop" ELSE "dispatch"
  /\ event' = Null
  /\ cycleEvals' = <<>>
  /\ cycleCalls' = <<>>
  /\ UNCHANGED <<defaultUnit, previousTemp, listeners, lastCall, calls, evals,
                 mods, exc, warm, fresh, prevAtStart, regAtStart>>

\* start's loop takes the next element, data, and calls #onTempRead with it;
\* the for loop of #onTempRead opens an iterator on #listeners.
OnTempRead(data) ==
  /\ pc = "loop"
  /\ Len(dataset) < MaxLen
  /\ dataset' = Append(dataset, data)
  /\ temp' = data
  /\ it' = 0
  /\ pc' = "dispatch"
  /\ event' = Null
  /\ cycleEvals' = <<>>
  /\ cycleCalls' = <<>>
  /\ UNCHANGED <<defaultUnit, previousTemp, listeners, lastCall, calls, evals,
                 mods, exc, warm, fresh, prevAtStart, regAtStart>>

\* An iteration from the last entry to the first.
NextEntryReversed == listeners[Len(listeners) - it]

\* The entry that the iterator of #onTempRead's for loop yields next.
NextEntry == listeners[it + 1]

\* An event whose current is the raw reading.
BuildEventRaw(t) ==
  [current |-> t,
   previous |-> IF previousTemp # Null
                THEN Some(convertUnit(defaultUnit, previousTemp[1]))
                ELSE Null]

\* The event that one iteration of #onTempRead's loop builds.
BuildEvent(t) ==
  [current |-> convertUnit(defaultUnit, t),
   previous |-> IF previousTemp # Null
                THEN Some(convertUnit(defaultUnit, previousTemp[1]))
                ELSE Null]

\* Control leaves start, by return or by exception: its frame (and that of
\* #onTempRead) is gone.
LeaveStart ==
  /\ pc' = "idle"
  /\ dataset' = <<>>
  /\ temp' = 0
  /\ it' = 0
  /\ event' = Null
  /\ cycleEvals' = <<>>
  /\ cycleCalls' = <<>>
  /\ mods' = 0
  /\ prevAtStart' = Null
  /\ regAtStart' = <<>>
  /\ fresh' = FALSE

\* A loop body that catches the exception and goes on with the next entry.
PropagateSwallowed ==
  /\ exc' = TRUE
  /\ it' = it + 1
  /\ event' = Some(BuildEvent(temp))
  /\ cycleEvals' = Append(cycleEvals, NextEntry.listener)
  /\ UNCHANGED <<pc, dataset, temp, cycleCalls, mods, prevAtStart, regAtStart, fresh,
               lastCall>>

\* An exception leaves #onTempRead and start: nothing catches it.
Propagate ==
  /\ LeaveStart
  /\ exc' = TRUE
  /\ lastCall' = Some([op |-> "start", result |-> "thrown"])

\* The listener returned: the loop of #onTempRead goes on, with the event of
\* this iteration and the call on record.
Continue ==
  /\ event' = Some(BuildEvent(temp))
  /\ cycleEvals' = Append(cycleEvals, NextEntry.listener)
  /\ cycleCalls' = Append(cycleCalls, NextEntry.listener)
  /\ UNCHANGED <<pc, dataset, temp, lastCall, exc, fresh, prevAtStart, regAtStart>>

\* An iteration that invokes the listener outside the if.
VisitSkipInvokes ==
  /\ pc = "dispatch"
  /\ it < Len(listeners)
  /\ EvalQualifier(NextEntry.qualifier, BuildEvent(temp)) = "false"
  /\ event' = Some(BuildEvent(temp))
  /\ cycleEvals' = Append(cycleEvals, NextEntry.listener)
  /\ cycleCalls' = Append(cycleCalls, NextEntry.listener)
  /\ calls' = [calls EXCEPT ![NextEntry.listener] = @ + 1]
  /\ evals' = evals + 1
  /\ it' = it + 1
  /\ UNCHANGED <<defaultUnit, previousTemp, listeners, pc, dataset, temp, lastCall,
                 mods, exc, warm, fresh, prevAtStart, regAtStart>>

\* One iteration whose qualifier returns false.
VisitSkip ==
  /\ pc = "dispatch"
  /\ it < Len(listeners)
  /\ EvalQualifier(NextEntry.qualifier, BuildEvent(temp)) = "false"
  /\ event' = Some(BuildEvent(temp))
  /\ cycleEvals' = Append(cycleEvals, NextEntry.listener)
  /\ evals' = evals + 1
  /\ it' = it + 1
  /\ UNCHANGED <<defaultUnit, previousTemp, listeners, pc, dataset, temp, lastCall,
                 cycleCalls, calls, mods, exc, warm, fresh, prevAtStart, regAtStart>>

\* An iteration that stores the reading on its way out (a finally block).
VisitQualifierThrowsStores ==
  /\ pc = "dispatch"
  /\ it < Len(listeners)
  /\ EvalQualifier(NextEntry.qualifier, BuildEvent(temp)) = "throw"
  /\ evals' = evals + 1
  /\ Propagate
  /\ previousTemp' = Some(temp)
  /\ UNCHANGED <<defaultUnit, listeners, calls, warm>>

\* One iteration whose qualifier throws.
VisitQualifierThrows ==
  /\ pc = "dispatch"
  /\ it < Len(listeners)
  /\ EvalQualifier(NextEntry.qualifier, BuildEvent(temp)) = "throw"
  /\ evals' = evals + 1
  /\ Propagate
  /\ UNCHANGED <<defaultUnit, previousTemp, listeners, calls, warm>>

\* One iteration whose qualifier returns true: the listener is invoked, and
\* does eff.
VisitCall(eff) ==
  /\ pc = "dispatch"
  /\ it < Len(listeners)
  /\ EvalQualifier(NextEntry.qualifier, BuildEvent(temp)) = "true"
  /\ evals' = evals + 1
  /\ calls' = [calls EXCEPT ![NextEntry.listener] = @ + 1]
  /\ CASE eff.kind = "none" ->
            /\ it' = it + 1
            /\ UNCHANGED <<listeners, mods>>
            /\ Continue
       [] eff.kind = "throw" ->
            /\ Propagate
            /\ UNCHANGED listeners
       [] eff.kind = "remove" ->
            /\ mods < MaxMods
            /\ mods' = mods + 1
            /\ listeners' = MapDelete(listeners, eff.listener)
            /\ it' = IterAfterDelete(listeners, eff.listener, it + 1)
            /\ Continue
       [] eff.kind = "add" ->
            /\ mods < MaxMods
            /\ mods' = mods + 1
            /\ listeners' = MapSet(listeners, eff.listener, eff.qualifier)
            /\ it' = it + 1
            /\ Continue
  /\ UNCHANGED <<defaultUnit, previousTemp, warm>>

\* #onTempRead storing the reading only when a listener fired.
EndReadStoresIfFired ==
  /\ pc = "dispatch"
  /\ it >= Len(listeners)
  /\ previousTemp' = IF cycleCalls # <<>> THEN Some(temp) ELSE previousTemp
  /\ warm' = (cycleCalls # <<>> \/ warm)
  /\ pc' = "loop"
  /\ event' = Null
  /\ cycleEvals' = <<>>
  /\ cycleCalls' = <<>>
  /\ UNCHANGED <<defaultUnit, listeners, dataset, temp, it, lastCall, calls, evals,
                 mods, exc, fresh, prevAtStart, regAtStart>>

\* #onTempRead looping over the entries that were there when start was called.
EndReadOfSnapshot ==
  /\ pc = "dispatch"
  /\ (it >= Len(listeners) \/ it >= Len(regAtStart))
  /\ previousTemp' = Some(temp)
  /\ warm' = TRUE
  /\ pc' = "loop"
  /\ event' = Null
  /\ cycleEvals' = <<>>
  /\ cycleCalls' = <<>>
  /\ UNCHANGED <<defaultUnit, listeners, dataset, temp, it, lastCall, calls, evals,
                 mods, exc, fresh, prevAtStart, regAtStart>>

\* #onTempRead returning after its first iteration.
EndReadEarly ==
  /\ pc = "dispatch"
  /\ (it >= Len(listeners) \/ it >= 1)
  /\ previousTemp' = Some(temp)
  /\ warm' = TRUE
  /\ pc' = "loop"
  /\ event' = Null
  /\ cycleEvals' = <<>>
  /\ cycleCalls' = <<>>
  /\ UNCHANGED <<defaultUnit, listeners, dataset, temp, it, lastCall, calls, evals,
                 mods, exc, fresh, prevAtStart, regAtStart>>

\* #onTempRead storing the reading in the default unit instead of raw.
EndReadStoresConverted ==
  /\ pc = "dispatch"
  /\ it >= Len(listeners)
  /\ previousTemp' = Some(convertUnit(defaultUnit, temp))
  /\ warm' = TRUE
  /\ pc' = "loop"
  /\ event' = Null
  /\ cycleEvals' = <<>>
  /\ cycleCalls' = <<>>
  /\ UNCHANGED <<defaultUnit, listeners, dataset, temp, it, lastCall, calls, evals,
                 mods, exc, fresh, prevAtStart, regAtStart>>

\* The iterator is exhausted: #onTempRead stores the raw reading and returns.
EndRead ==
  /\ pc = "dispatch"
  /\ it >= Len(listeners)
  /\ previousTemp' = Some(temp)
  /\ warm' = TRUE
  /\ pc' = "loop"
  /\ event' = Null
  /\ cycleEvals' = <<>>
  /\ cycleCalls' = <<>>
  /\ UNCHANGED <<defaultUnit, listeners, dataset, temp, it, lastCall, calls, evals,
                 mods, exc, fresh, prevAtStart, regAtStart>>

\* start dropping every entry when it returns.
ReturnClears ==
  /\ pc = "loop"
  /\ LeaveStart
  /\ lastCall' = Some([op |-> "start", result |-> "returned"])
  /\ listeners' = <<>>
  /\ UNCHANGED <<defaultUnit, previousTemp, calls, evals, exc, warm>>

\* The dataset has no further element: start returns.
Return ==
  /\ pc = "loop"
  /\ LeaveStart
  /\ lastCall' = Some([op |-> "start", result |-> "returned"])
  /\ UNCHANGED <<defaultUnit, previousTemp, listeners, calls, evals, exc, warm>>

Next ==
  \/ \E q \in Qualifiers, l \in Listeners : AddEventListener(q, l)
  \/ \E l \in Listeners : RemoveEventListener(l)
  \/ \E unit \in Units, value \in Readings : ConvertUnit(unit, value)
  \/ Start
  \/ \E data \in Readings : OnTempRead(data)
  \/ VisitSkip
  \/ VisitQualifierThrows
  \/ \E eff \in Effects : VisitCall(eff)
  \/ EndRead
  \/ Return

Spec == Init /\ [][Next]_vars

\* ---- a listener that calls start ----

\* A start call made from a listener runs #onTempRead on the same instance:
\* the place, in the registry, of the first qualifier that throws on the
\* reading d, 0 when none does.
NestedThrowAt(d) ==
  LET T == {k \in 1..Len(listeners) :
              EvalQualifier(listeners[k].qualifier, BuildEvent(d)) = "throw"}
  IN  IF T = {} THEN 0 ELSE CHOOSE k \in T : \A j \in T : k <= j

\* The number of entries the nested #onTempRead evaluates.
NestedVisited(d) ==
  IF NestedThrowAt(d) = 0 THEN Len(listeners) ELSE NestedThrowAt(d)

\* The number of times the nested #onTempRead invokes listener l.
NestedCalls(d, l) ==
  IF \E k \in 1..NestedVisited(d) :
       /\ listeners[k].listener = l
       /\ EvalQualifier(listeners[k].qualifier, BuildEvent(d)) = "true"
  THEN 1 ELSE 0

\* One iteration whose listener is invoked and calls start([d]) on the
\* thermometer (the listeners invoked by that nested call do nothing). The
\* nested #onTempRead evaluates the registry on the event of d; when a
\* qualifier throws, the exception leaves the nested call, the listener and
\* the outer start; otherwise the nested call stores d and the loop goes on.
VisitCallStarts(d) ==
  /\ pc = "dispatch"
  /\ it < Len(listeners)
  /\ EvalQualifier(NextEntry.qualifier, BuildEvent(temp)) = "true"
  /\ evals' = evals + 1 + NestedVisited(d)
  /\ calls' = [l \in Listeners |->
                 calls[l] + (IF l = NextEntry.listener THEN 1 ELSE 0) + NestedCalls(d, l)]
  /\ IF NestedThrowAt(d) # 0
     THEN /\ Propagate
          /\ UNCHANGED <<previousTemp, warm>>
     ELSE /\ previousTemp' = Some(d)
          /\ warm' = TRUE
          /\ fresh' = FALSE
          /\ it' = it + 1
          /\ event' = Some(BuildEvent(temp))
          /\ cycleEvals' = Append(cycleEvals, NextEntry.listener)
          /\ cycleCalls' = Append(cycleCalls, NextEntry.listener)
          /\ UNCHANGED <<pc, dataset, temp, lastCall, exc, prevAtStart, regAtStart>>
  /\ UNCHANGED <<defaultUnit, listeners, mods>>

NextReentrant ==
  \/ Next
  \/ \E d \in Readings : VisitCallStarts(d)

SpecReentrant == Init /\ [][NextReentrant]_vars

\* ================================================================ claims ====
\* How many times x occurs in seq.
Count(seq, x) == Cardinality({i \in 1..Len(seq) : seq[i] = x})

\* The raw reading processed before the reading in progress, or null: the
\* element of the dataset before it, or what start found stored.
PriorRaw ==
  IF Len(dataset) > 1 THEN Some(dataset[Len(dataset) - 1]) ELSE prevAtStart

\* The event of the reading in progress, as processReading defines it.
CycleEvent ==
  [current |-> convertUnit(defaultUnit, temp),
   previous |-> IF PriorRaw = Null THEN Null
                ELSE Some(convertUnit(defaultUnit, PriorRaw[1]))]

\* The event of reading i of data, when prev0 was stored before data[1].
EventAt(data, prev0, i) ==
  [current |-> convertUnit(defaultUnit, data[i]),
   previous |-> IF i > 1 THEN Some(convertUnit(defaultUnit, data[i - 1]))
                ELSE IF prev0 = Null THEN Null
                ELSE Some(convertUnit(defaultUnit, prev0[1]))]

\* The number of readings of data whose event satisfies qualifier q.
Satisfying(q, data, prev0) ==
  Cardinality({i \in 1..Len(data) : EvalQualifier(q, EventAt(data, prev0, i)) = "true"})

\* ---- C1 ----
\* C1: in the first start call on a freshly constructed instance, the event
\* built for the first reading has previous = null, and the event built for a
\* later reading i has previous = convertUnit(defaultUnit, dataset[i-1]).
C1_PreviousIsPredecessor ==
  (pc = "dispatch" /\ fresh /\ event # Null) =>
    event[1].previous =
      IF Len(dataset) = 1 THEN Null
      ELSE Some(convertUnit(defaultUnit, dataset[Len(dataset) - 1]))

\* A Fahrenheit instance whose second reading follows 101: previous is 213.8.
C1_Witness ==
  /\ pc = "dispatch" /\ fresh /\ event # Null
  /\ defaultUnit = "Fahrenheit"
  /\ Len(dataset) = 2 /\ dataset[1] = 1010
  /\ event[1].previous = Some(2138)

\* ---- C2 ----
\* C2: in a start call during which no listener touches the registry, an
\* entry's listener is invoked for a reading iff the entry's qualifier is true
\* of that reading's event, and at most once; so when a reading is done the
\* invocations of a listener number the readings so far whose event satisfies
\* its qualifier, and a listener that is not registered has none.
C2_InvokedIffQualified ==
  (pc # "idle" /\ mods = 0) =>
    /\ \A k \in 1..Len(listeners) :
         /\ pc = "dispatch" =>
              Count(cycleCalls, listeners[k].listener) =
                IF k <= it /\ EvalQualifier(listeners[k].qualifier, CycleEvent) = "true"
                THEN 1 ELSE 0
         /\ pc = "loop" =>
              calls[listeners[k].listener] =
                Satisfying(listeners[k].qualifier, dataset, prevAtStart)
    /\ \A l \in Listeners \ Keys(listeners) : calls[l] = 0

\* Two readings done, 101 then 0: the delta listener was invoked once, the
\* always-true listener twice.
C2_Witness ==
  /\ pc = "loop" /\ mods = 0
  /\ dataset = <<1010, 0>>
  /\ \E k \in 1..Len(listeners) :
       listeners[k].qualifier = "delta" /\ calls[listeners[k].listener] = 1
  /\ \E k \in 1..Len(listeners) :
       listeners[k].qualifier = "always" /\ calls[listeners[k].listener] = 2

\* ---- C3 ----
\* C3: after removeEventListener(L), L is not in the registry; a listener that
\* is not in the registry is not invoked by any step of a start call, whatever
\* its former qualifier; and the removal leaves the number of calls L has
\* received unchanged.
C3_RemovedNotInvoked ==
  /\ [](lastCall # Null /\ lastCall[1].op = "removeEventListener"
          => ~Has(listeners, lastCall[1].listener))
  /\ [][\A l \in Listeners :
          /\ (pc # "idle" /\ ~Has(listeners, l)) => calls'[l] = calls[l]
          /\ (pc = "idle" /\ Has(listeners, l) /\ ~Has(listeners', l))
               => calls'[l] = calls[l]]_vars

\* listenerA was invoked for the first reading, then removed during the run,
\* and not invoked for the second reading, which listenerB received.
C3_Witness ==
  /\ pc = "loop" /\ Len(dataset) = 2
  /\ ~Has(listeners, "listenerA") /\ calls["listenerA"] = 1
  /\ Has(listeners, "listenerB") /\ calls["listenerB"] = 2

\* ---- C4 ----
\* C4: the registry never holds two entries with the same listener;
\* addEventListener(q2, L) for an L that is registered adds no entry, leaves
\* the other entries as they are and stores q2; and (the registry untouched
\* during the run) a registered listener is invoked at most once per reading,
\* and exactly when the qualifier the registry now holds for it is true.
C4_OneEntryPerListener ==
  /\ [](\A i, j \in 1..Len(listeners) :
          listeners[i].listener = listeners[j].listener => i = j)
  /\ [][(lastCall' # Null /\ lastCall'[1].op = "addEventListener") =>
          /\ Has(listeners', lastCall'[1].listener)
          /\ QualifierOf(listeners', lastCall'[1].listener) = lastCall'[1].qualifier
          /\ Has(listeners, lastCall'[1].listener) =>
               /\ Len(listeners') = Len(listeners)
               /\ \A k \in 1..Len(listeners) :
                    listeners[k].listener # lastCall'[1].listener
                      => listeners'[k] = listeners[k]]_vars
  /\ []((pc = "dispatch" /\ mods = 0) =>
          \A l \in Keys(listeners) :
            /\ Count(cycleCalls, l) <= 1
            /\ it = Len(listeners) =>
                 (Count(cycleCalls, l) = 1
                    <=> EvalQualifier(QualifierOf(listeners, l), BuildEvent(temp)) = "true"))

\* listenerA, the first of two entries, was invoked twice in the last run and
\* has just been registered again, with the qualifier that throws.
C4_Witness ==
  /\ pc = "idle"
  /\ lastCall = Some([op |-> "addEventListener", qualifier |-> "throws",
                      listener |-> "listenerA"])
  /\ Len(listeners) = 2 /\ listeners[1].listener = "listenerA"
  /\ listeners[1].qualifier = "throws"
  /\ calls["listenerA"] = 2

\* ---- C5 ----
\* C5: (the registry untouched during the run) the listeners invoked for one
\* reading are invoked in the order of their entries in the registry, and with
\* always-true qualifiers every entry passed so far was invoked exactly once,
\* in that order; the registry's order is insertion order: no step changes the
\* relative order of two entries, and an entry with a new key goes last.
C5_InsertionOrder ==
  /\ []((pc = "dispatch" /\ mods = 0) =>
          /\ \A i, j \in 1..Len(cycleCalls) :
               i < j => IndexOf(listeners, cycleCalls[i]) < IndexOf(listeners, cycleCalls[j])
          /\ (\A k \in 1..it : listeners[k].qualifier = "always")
               => cycleCalls = [k \in 1..it |-> listeners[k].listener])
  /\ [][/\ \A a, b \in Keys(listeners) \cap Keys(listeners') :
             IndexOf(listeners, a) < IndexOf(listeners, b)
               => IndexOf(listeners', a) < IndexOf(listeners', b)
        /\ \A n \in Keys(listeners') \ Keys(listeners) :
             IndexOf(listeners', n) = Len(listeners')]_vars

\* listenerB was registered before listenerA, and is invoked before it.
C5_Witness ==
  /\ pc = "dispatch" /\ mods = 0
  /\ cycleCalls = <<"listenerB", "listenerA">>
  /\ listeners[1].listener = "listenerB"

\* ---- C6 ----
\* C6: the event of a reading has current = the raw reading for a Celsius
\* instance and raw * 1.8 + 32 for a Fahrenheit instance (101 gives 101 and
\* 213.8), and its previous, when not null, is the stored raw reading in the
\* same unit.
C6_CurrentInDefaultUnit ==
  (pc = "dispatch" /\ event # Null) =>
    /\ temp = dataset[Len(dataset)]
    /\ event[1].current =
         IF defaultUnit = "Celsius" THEN temp ELSE (temp * 18) \div 10 + 320
    /\ temp = 1010 =>
         event[1].current = IF defaultUnit = "Celsius" THEN 1010 ELSE 2138
    /\ previousTemp # Null =>
         event[1].previous =
           Some(IF defaultUnit = "Celsius" THEN previousTemp[1]
                ELSE (previousTemp[1] * 18) \div 10 + 320)

\* A Fahrenheit instance reads 101 after 0.5: current 213.8, previous 32.9.
C6_Witness ==
  /\ pc = "dispatch" /\ event # Null
  /\ defaultUnit = "Fahrenheit" /\ temp = 1010 /\ previousTemp = Some(5)
  /\ event[1] = [current |-> 2138, previous |-> Some(329)]

\* ---- C7 ----
\* C7: convertUnit(unit, x) gives x for Celsius and x * 1.8 + 32 for
\* Fahrenheit, whatever the instance's default unit and stored reading.
C7_ConvertUnit ==
  (lastCall # Null /\ lastCall[1].op = "convertUnit") =>
    lastCall[1].result =
      IF lastCall[1].unit = "Celsius" THEN lastCall[1].value
      ELSE (lastCall[1].value * 18) \div 10 + 320

\* A Celsius instance that has stored a reading converts 101 to Fahrenheit.
C7_Witness ==
  /\ lastCall = Some([op |-> "convertUnit", unit |-> "Fahrenheit", value |-> 1010,
                      result |-> 2138])
  /\ defaultUnit = "Celsius"
  /\ previousTemp = Some(0)

\* ---- C8 ----
\* C8: the previous of an event is null iff no reading has been processed to
\* the end since construction; the stored reading is null exactly until then,
\* and once it is not null no step (of any method, in any run) makes it null.
C8_ColdThenWarm ==
  /\ [](event # Null => (event[1].previous = Null <=> ~warm))
  /\ [](previousTemp = Null <=> ~warm)
  /\ [][previousTemp # Null => previousTemp' # Null]_vars

\* The first reading of a later start call finds the instance warm.
C8_Witness ==
  /\ pc = "dispatch" /\ event # Null
  /\ ~fresh /\ Len(dataset) = 1
  /\ warm /\ event[1].previous = Some(1010)

\* ---- C9 ----
\* C9: start processes one reading at a time, in order: while reading i is
\* dispatched the stored reading is reading i-1; qualifiers are evaluated only
\* for the reading in progress; #onTempRead is left for the loop of start only
\* when every entry has been passed and the reading has been stored; and the
\* next reading is taken only then, following the last one.
C9_OneReadingAtATime ==
  /\ [](pc = "dispatch" =>
          /\ temp = dataset[Len(dataset)]
          /\ Len(dataset) > 1 => previousTemp = Some(dataset[Len(dataset) - 1]))
  /\ [][/\ evals' = evals + 1 =>
             /\ pc = "dispatch"
             /\ pc' = "dispatch" => (temp' = temp /\ dataset' = dataset)
        /\ (pc = "dispatch" /\ pc' = "loop") =>
             /\ it >= Len(listeners)
             /\ previousTemp' = Some(temp)
             /\ dataset' = dataset
        /\ (pc = "loop" /\ pc' = "dispatch") =>
             /\ dataset' = Append(dataset, temp')
             /\ it' = 0 /\ cycleEvals' = <<>> /\ cycleCalls' = <<>>
             /\ Len(dataset) > 0 => previousTemp = Some(dataset[Len(dataset)])]_vars

\* The second reading is at its second entry, and the first reading is stored.
C9_Witness ==
  /\ pc = "dispatch" /\ Len(dataset) = 2 /\ dataset[1] # dataset[2]
  /\ Len(listeners) = 2 /\ it = 1 /\ Len(cycleEvals) = 1
  /\ previousTemp = Some(dataset[1])

\* ---- C10 ----
\* C10: when a qualifier or listener throws, start is left at once with the
\* exception; from then until the next call of start no qualifier is
\* evaluated, no listener is invoked and no reading is stored.
C10_ThrowAborts ==
  /\ [](exc => pc = "idle")
  /\ [][(~exc /\ exc') =>
          /\ pc = "dispatch" /\ pc' = "idle"
          /\ lastCall' = Some([op |-> "start", result |-> "thrown"])
          /\ evals' = evals + 1]_vars
  /\ [][(exc /\ exc') =>
          (evals' = evals /\ calls' = calls /\ previousTemp' = previousTemp)]_vars

\* The listener of the first of two always-true entries threw on the first
\* reading: the second entry was never evaluated.
C10_Witness ==
  /\ exc /\ pc = "idle"
  /\ lastCall = Some([op |-> "start", result |-> "thrown"])
  /\ Len(listeners) = 2
  /\ \A k \in 1..Len(listeners) : listeners[k].qualifier = "always"
  /\ evals = 1 /\ calls[listeners[1].listener] = 1 /\ calls[listeners[2].listener] = 0

\* ---- C11 ----
\* C11: removeEventListener of a listener that is not in the registry raises
\* nothing and leaves the registry (entries, qualifiers, order) and the stored
\* reading as they were.
C11_RemoveAbsentIsNoOp ==
  [][(lastCall' # Null /\ lastCall'[1].op = "removeEventListener"
        /\ ~lastCall'[1].present) =>
       /\ listeners' = listeners
       /\ previousTemp' = previousTemp
       /\ exc' = exc /\ pc' = "idle"]_vars

\* listenerA, which was not registered, has been removed from a registry that
\* holds listenerB, on an instance that has stored a reading.
C11_Witness ==
  /\ lastCall = Some([op |-> "removeEventListener", listener |-> "listenerA",
                      present |-> FALSE])
  /\ Len(listeners) = 1 /\ listeners[1].listener = "listenerB"
  /\ previousTemp = Some(5)

\* ---- C12 ----
\* C12: within one reading cycle every entry's qualifier is evaluated on the
\* same event values: from one iteration of the cycle to the next the event
\* (current and previous) does not change, whatever the listener invoked in
\* between did.
C12_SameEventInCycle ==
  [][(pc = "dispatch" /\ pc' = "dispatch" /\ event # Null /\ event' # Null)
       => event' = event]_vars

\* ---- C13 ----
\* C13: when #onTempRead has returned, the stored reading is the raw reading
\* it was given, whether or not the registry is empty, a qualifier was true,
\* or the default unit is Fahrenheit.
C13_StoresRawReading ==
  (pc = "loop" /\ Len(dataset) > 0) => previousTemp = Some(dataset[Len(dataset)])

\* A Fahrenheit instance with an empty registry has processed 101: it stores
\* 101, not 213.8.
C13_Witness ==
  /\ pc = "loop" /\ dataset = <<1010>>
  /\ defaultUnit = "Fahrenheit" /\ listeners = <<>> /\ evals = 0
  /\ previousTemp = Some(1010)

\* ---- C14 ----
\* C14: the stored reading is null at construction; the only step that
\* changes it is #onTempRead's store of the reading it was given, so
\* addEventListener, removeEventListener and convertUnit leave it unchanged,
\* and nothing makes it null again.
C14_StoredReadingFrame ==
  /\ []((pc = "idle" /\ lastCall = Null) => previousTemp = Null)
  /\ [][previousTemp' # previousTemp =>
          /\ pc = "dispatch" /\ pc' = "loop"
          /\ previousTemp' = Some(temp)]_vars
  /\ [][(lastCall' # Null /\ lastCall'[1].op \in
           {"addEventListener", "removeEventListener", "convertUnit"})
          => previousTemp' = previousTemp]_vars

\* convertUnit of 101 on an instance that has stored 0.5.
C14_Witness ==
  /\ lastCall # Null /\ lastCall[1].op = "convertUnit" /\ lastCall[1].value = 1010
  /\ previousTemp = Some(5)
  /\ Len(listeners) = 2

\* ---- C15 ----
\* C15: the registry is empty at construction, and a step changes it only if
\* it is a call of addEventListener or removeEventListener, by the
\* application or by a listener: start, #onTempRead and convertUnit themselves
\* leave the entries, their qualifiers and their order as they are, so a start
\* call in which no listener calls them ends with the registry it found.
C15_RegistryFrame ==
  /\ []((pc = "idle" /\ lastCall = Null) => listeners = <<>>)
  /\ [][listeners' # listeners =>
          \/ /\ pc = "idle" /\ lastCall' # Null
             /\ lastCall'[1].op \in {"addEventListener", "removeEventListener"}
          \/ /\ pc = "dispatch" /\ mods' = mods + 1]_vars
  /\ []((pc # "idle" /\ mods = 0) => listeners = regAtStart)
  /\ [][(pc = "loop" /\ pc' = "idle") => listeners' = listeners]_vars

\* start has returned after two readings that both listeners received, and
\* both entries are still there.
C15_Witness ==
  /\ pc = "idle" /\ lastCall = Some([op |-> "start", result |-> "returned"])
  /\ Len(listeners) = 2
  /\ calls["listenerA"] = 2 /\ calls["listenerB"] = 2

\* The set of the elements of seq.
Range(seq) == {seq[i] : i \in 1..Len(seq)}

\* ---- C16 ----
\* C16: the step in which a qualifier or listener throws leaves the stored
\* reading as it was, which is the last reading processed to the end (or
\* null); it stays so until the next start call, whose first event has it,
\* converted, as its previous.
C16_AbortedReadingNotStored ==
  /\ [][(~exc /\ exc') =>
          /\ previousTemp' = previousTemp
          /\ previousTemp = PriorRaw
          /\ warm' = warm]_vars
  /\ [][((exc /\ exc') \/ (pc = "idle" /\ pc' = "loop"))
          => previousTemp' = previousTemp]_vars
  /\ []((pc = "dispatch" /\ event # Null) =>
          event[1].previous =
            IF previousTemp = Null THEN Null
            ELSE Some(convertUnit(defaultUnit, previousTemp[1])))

\* 101 was processed to the end; the freezing listener then threw on a second
\* reading, which is at most 0: the stored reading is still 101.
C16_Witness ==
  /\ exc /\ pc = "idle"
  /\ Len(listeners) = 1 /\ listeners[1].qualifier = "freezing"
  /\ evals = 2 /\ calls[listeners[1].listener] = 1
  /\ previousTemp = Some(1010)

\* ---- C17 ----
\* C17: addEventListener for a listener that is registered leaves it at its
\* place (no step without a removal moves an entry); for a listener that is
\* not registered it puts the entry last, so removeEventListener followed by
\* addEventListener of the same listener moves it to the end.
C17_ReRegisterKeepsPlace ==
  /\ [][(pc = "idle" /\ lastCall' # Null /\ lastCall'[1].op = "addEventListener") =>
          IF Has(listeners, lastCall'[1].listener)
          THEN /\ Len(listeners') = Len(listeners)
               /\ IndexOf(listeners', lastCall'[1].listener)
                    = IndexOf(listeners, lastCall'[1].listener)
          ELSE /\ Len(listeners') = Len(listeners) + 1
               /\ listeners'[Len(listeners')].listener = lastCall'[1].listener
               /\ SubSeq(listeners', 1, Len(listeners)) = listeners]_vars
  /\ [][(lastCall # Null /\ lastCall[1].op = "removeEventListener"
           /\ lastCall' # Null /\ lastCall'[1].op = "addEventListener"
           /\ lastCall'[1].listener = lastCall[1].listener) =>
          IndexOf(listeners', lastCall'[1].listener) = Len(listeners')]_vars
  /\ [][Len(listeners') >= Len(listeners) =>
          \A l \in Keys(listeners) \cap Keys(listeners') :
            IndexOf(listeners', l) = IndexOf(listeners, l)]_vars

\* listenerA has just been registered and is the first of two entries: it was
\* registered before, or it would be the last.
C17_Witness ==
  /\ pc = "idle"
  /\ lastCall = Some([op |-> "addEventListener", qualifier |-> "freezing",
                      listener |-> "listenerA"])
  /\ Len(listeners) = 2
  /\ listeners[1] = [listener |-> "listenerA", qualifier |-> "freezing"]
  /\ listeners[2].listener = "listenerB"

\* ---- C18 ----
\* C18: dispatch iterates the live registry: a listener that is not in the
\* registry is neither evaluated nor invoked by an iteration, and when an
\* invoked listener removes an entry the iterator has not reached, the
\* iterator goes on from where it was, over the entries that remain.
C18_LiveIteration ==
  /\ [][\A l \in Listeners :
          (pc = "dispatch" /\ ~Has(listeners, l)) =>
            /\ Count(cycleEvals', l) <= Count(cycleEvals, l)
            /\ calls'[l] = calls[l]]_vars
  /\ [][(pc = "dispatch" /\ pc' = "dispatch") =>
          \A l \in Keys(listeners) \ Keys(listeners') :
            IndexOf(listeners, l) > it + 1 =>
              /\ it' = it + 1
              /\ Len(listeners') = Len(listeners) - 1
              /\ SubSeq(listeners', 1, it') = SubSeq(listeners, 1, it + 1)]_vars

\* start found listenerA and listenerB, both always true; listenerA, invoked
\* for the first reading, removed listenerB, which has not been evaluated, and
\* the iterator is at the end.
C18_Witness ==
  /\ pc = "dispatch" /\ Len(dataset) = 1
  /\ regAtStart = <<[listener |-> "listenerA", qualifier |-> "always"],
                    [listener |-> "listenerB", qualifier |-> "always"]>>
  /\ listeners = <<[listener |-> "listenerA", qualifier |-> "always"]>>
  /\ cycleEvals = <<"listenerA">> /\ it = 1
  /\ calls["listenerB"] = 0

\* ---- C19 ----
\* C19: when an invoked listener registers a listener that was not in the
\* registry, the entry is appended behind the iterator; every entry the
\* iterator has passed has been evaluated for the reading in progress, and
\* #onTempRead returns only when every entry of the registry, the new one
\* included, has been.
C19_AddedEntryIsVisited ==
  /\ [](pc = "dispatch" =>
          /\ it <= Len(listeners)
          /\ \A k \in 1..it : listeners[k].listener \in Range(cycleEvals))
  /\ [][(pc = "dispatch" /\ pc' = "dispatch") =>
          \A n \in Keys(listeners') \ Keys(listeners) :
            /\ Len(listeners') = Len(listeners) + 1
            /\ listeners'[Len(listeners')].listener = n
            /\ it' = it + 1 /\ it' < Len(listeners')]_vars
  /\ [][(pc = "dispatch" /\ pc' = "loop") =>
          \A l \in Keys(listeners) : l \in Range(cycleEvals)]_vars

\* start found listenerA alone; invoked for the first reading, it registered
\* listenerB, which was then evaluated and invoked for the same reading.
C19_Witness ==
  /\ pc = "dispatch" /\ Len(dataset) = 1
  /\ Len(regAtStart) = 1 /\ regAtStart[1].listener = "listenerA"
  /\ Len(listeners) = 2 /\ listeners[2].listener = "listenerB"
  /\ cycleEvals = <<"listenerA", "listenerB">>
  /\ cycleCalls = <<"listenerA", "listenerB">>

====
